---------------------------- MODULE Spec2Model ----------------------------
(***************************************************************************)
(* A model of simpleperf's "dump" command (simpleperf/cmd_dumprecord.cpp): *)
(* the pass of DumpRecordCommand::Run over the data section of a record    *)
(* file, record by record, followed by the dump of the feature section.    *)
(*                                                                         *)
(* Bytes are integers 0..255.  A std::string is a TLA+ string.  A fixed    *)
(* width integer is the sequence of its bytes, most significant first, so  *)
(* that 64-bit values are printed without leaving TLC's integer range.     *)
(* A uint64_t instruction pointer is the integer with the same two's       *)
(* complement bit pattern (so (u64)-4095 is -4095), compared as unsigned.  *)
(***************************************************************************)
EXTENDS Integers, Sequences, FiniteSets, TLC

VARIABLES
  pc,             \* where Run is: "data", "feature", "returned", "crashed"
  ret,            \* the value Run returned (meaningful when pc = "returned")
  little_endian,  \* byte order of the host the command was built for
  attrs,          \* record_file_reader_->AttrSection()
  events_,        \* DumpRecordCommand::events_
  etm_decoder_,   \* DumpRecordCommand::etm_decoder_ is non-null
  thread_tree_,   \* DumpRecordCommand::thread_tree_
  nread,          \* records ReadDataSection has handed to the callback
  last,           \* what the latest ProcessRecord call was given and did
  feat            \* what DumpFeatureSection was given and did

vars == <<pc, ret, little_endian, attrs, events_, etm_decoder_, thread_tree_,
          nread, last, feat>>

----------------------------------------------------------------------------
(* Bounds of the model. *)

MaxRecords == 3

MaxInputRecords == 1

MaxElemSize == 9

MaxElemCount == 3

MaxChain == 3

MaxFileReads == 1

----------------------------------------------------------------------------
(* Strings and fixed-width integers. *)

DigitChars == <<"0", "1", "2", "3", "4", "5", "6", "7", "8", "9",
                "a", "b", "c", "d", "e", "f">>

\* The characters of the bytes 32 to 126; "" where the model has none.
PrintableChars ==
  <<" ", "!", "\"", "#", "$", "%", "&", "'", "(", ")", "*", "+", ",", "-", ".", "/",
    "0", "1", "2", "3", "4", "5", "6", "7", "8", "9", ":", ";", "<", "=", ">", "?",
    "@", "A", "B", "C", "D", "E", "F", "G", "H", "I", "J", "K", "L", "M", "N", "O",
    "P", "Q", "R", "S", "T", "U", "V", "W", "X", "Y", "Z", "[", "\\", "]", "^", "_",
    "", "a", "b", "c", "d", "e", "f", "g", "h", "i", "j", "k", "l", "m", "n", "o",
    "p", "q", "r", "s", "t", "u", "v", "w", "x", "y", "z", "{", "|", "}", "~">>

\* The character a byte of a std::string stands for; a byte that has no
\* character in PrintableChars is written as an escape, so that distinct bytes
\* stay distinct.
Chr(b) ==
  IF b >= 32 /\ b <= 126 /\ PrintableChars[b - 31] # ""
    THEN PrintableChars[b - 31]
    ELSE "\\x" \o DigitChars[(b \div 16) + 1] \o DigitChars[(b % 16) + 1]

Reverse(s) == [i \in 1..Len(s) |-> s[Len(s) + 1 - i]]

IsZero(bs) == \A i \in 1..Len(bs) : bs[i] = 0

\* The remainder modulo 10 of the number whose first k bytes are bs[1..k].
RECURSIVE RemPrefix(_, _)
RemPrefix(bs, k) ==
  IF k = 0 THEN 0 ELSE (RemPrefix(bs, k - 1) * 256 + bs[k]) % 10

\* Long division by ten, byte by byte.
Quot10(bs) ==
  [k \in 1..Len(bs) |-> (RemPrefix(bs, k - 1) * 256 + bs[k]) \div 10]

RECURSIVE DecimalDigits(_)
DecimalDigits(bs) ==
  IF IsZero(bs) THEN ""
  ELSE DecimalDigits(Quot10(bs)) \o DigitChars[RemPrefix(bs, Len(bs)) + 1]

\* printf("%" PRIu64) of the unsigned number with bytes bs.
FormatUnsigned(bs) == IF IsZero(bs) THEN "0" ELSE DecimalDigits(bs)

\* bs + 1 modulo 2^(8 * Len(bs)).
RECURSIVE AddOne(_)
AddOne(bs) ==
  IF bs = <<>> THEN <<>>
  ELSE LET n == Len(bs)
       IN IF bs[n] < 255
            THEN [bs EXCEPT ![n] = bs[n] + 1]
            ELSE Append(AddOne(SubSeq(bs, 1, n - 1)), 0)

\* Two's complement negation.
Negate(bs) == AddOne([i \in 1..Len(bs) |-> 255 - bs[i]])

\* printf("%" PRId64, static_cast<int64_t>(value)): value is sign-extended.
FormatPRId64(bs) ==
  IF bs[1] >= 128 THEN "-" \o FormatUnsigned(Negate(bs)) ELSE FormatUnsigned(bs)

RECURSIVE HexNibbles(_)
HexNibbles(bs) ==
  IF bs = <<>> THEN ""
  ELSE DigitChars[(bs[1] \div 16) + 1] \o DigitChars[(bs[1] % 16) + 1]
       \o HexNibbles(Tail(bs))

RECURSIVE StripZeroBytes(_)
StripZeroBytes(bs) ==
  IF bs # <<>> /\ bs[1] = 0 THEN StripZeroBytes(Tail(bs)) ELSE bs

\* printf("%" PRIx64) of the zero-extended value: no leading zero digits.
FormatPRIx64(bs) ==
  LET s == StripZeroBytes(bs)
  IN IF s = <<>> THEN "0"
     ELSE IF s[1] < 16
            THEN DigitChars[s[1] + 1] \o HexNibbles(Tail(s))
            ELSE HexNibbles(s)

\* printf("%08x") of a uint32_t.
Format08x(bs) == HexNibbles(bs)

\* MoveFromBinaryFormat(value, p) for a value of w bytes: the bytes at p are
\* copied into the object, whose byte order is the host's.  The result is the
\* value, most significant byte first.
MoveFromBinaryFormat(w, data) ==
  IF little_endian THEN Reverse(SubSeq(data, 1, w)) ELSE SubSeq(data, 1, w)

\* p + n for a pointer into a buffer: the bytes from offset n on.
Advance(data, n) == SubSeq(data, n + 1, Len(data))

----------------------------------------------------------------------------
(* The decoders of a tracepoint field.  A TracingField is a record          *)
(* [name, elem_size, elem_count, is_signed]; data is the payload from the   *)
(* field's first byte on.  An ExtractFieldFn is a record [fn, T]: the       *)
(* function's name and the width in bytes of its template type T (0 for a   *)
(* function that is no template).                                           *)

RECURSIVE CopyChars(_, _, _)
CopyChars(field, data, i) ==
  IF i < field.elem_count /\ data[i + 1] # 0
    THEN Chr(data[i + 1]) \o CopyChars(field, data, i + 1)
    ELSE ""

ExtractStringField(field, data) == CopyChars(field, data, 0)

\* ExtractIntField without the test of field.is_signed.
ExtractIntField_AlwaysHex(T, field, data) ==
  "0x" \o FormatPRIx64(MoveFromBinaryFormat(T, data))

ExtractIntField(T, field, data) ==
  LET value == MoveFromBinaryFormat(T, data)
  IN IF field.is_signed
       THEN FormatPRId64(value)
       ELSE "0x" \o FormatPRIx64(value)

RECURSIVE IntArrayFrom(_, _, _, _)
IntArrayFrom(T, field, data, i) ==
  IF i < field.elem_count
    THEN (IF i # 0 THEN " " ELSE "")
         \o ExtractIntField(T, field, data)
         \o IntArrayFrom(T, field, Advance(data, field.elem_size), i + 1)
    ELSE ""

ExtractIntArrayField(T, field, data) == IntArrayFrom(T, field, data, 0)

RECURSIVE UnknownFrom(_, _, _)
UnknownFrom(total, data, i) ==
  IF i + 4 <= total
    THEN (IF i # 0 THEN " " ELSE "")
         \o "0x" \o Format08x(MoveFromBinaryFormat(4, data))
         \o UnknownFrom(total, Advance(data, 4), i + 4)
    ELSE ""

ExtractUnknownField(field, data) ==
  UnknownFrom(field.elem_size * field.elem_count, data, 0)

Fn(name, T) == [fn |-> name, T |-> T]

\* GetExtractFieldFunction taking every byte-sized field for a string.
GetExtractFieldFunction_ByteIsString(field) ==
  IF field.elem_count >= 1 /\ field.elem_size = 1
    THEN Fn("ExtractStringField", 0)
  ELSE IF field.elem_count = 1
    THEN IF field.elem_size \in {1, 2, 4, 8}
           THEN Fn("ExtractIntField", field.elem_size)
           ELSE Fn("ExtractUnknownField", 0)
  ELSE IF field.elem_size \in {1, 2, 4, 8}
         THEN Fn("ExtractIntArrayField", field.elem_size)
         ELSE Fn("ExtractUnknownField", 0)

GetExtractFieldFunction(field) ==
  IF field.elem_count > 1 /\ field.elem_size = 1
    THEN Fn("ExtractStringField", 0)
  ELSE IF field.elem_count = 1
    THEN IF field.elem_size \in {1, 2, 4, 8}
           THEN Fn("ExtractIntField", field.elem_size)
           ELSE Fn("ExtractUnknownField", 0)
  ELSE IF field.elem_size \in {1, 2, 4, 8}
         THEN Fn("ExtractIntArrayField", field.elem_size)
         ELSE Fn("ExtractUnknownField", 0)

\* The call f(field, data) of an ExtractFieldFn.
CallExtractFieldFn(f, field, data) ==
  CASE f.fn = "ExtractStringField" -> ExtractStringField(field, data)
    [] f.fn = "ExtractIntField" -> ExtractIntField(f.T, field, data)
    [] f.fn = "ExtractIntArrayField" -> ExtractIntArrayField(f.T, field, data)
    [] f.fn = "ExtractUnknownField" -> ExtractUnknownField(field, data)

----------------------------------------------------------------------------
(* The inputs: what the record file holds and what the collaborators of    *)
(* the command (the file reader, the ETM decoder) answer.                  *)

Field(name, elem_size, elem_count, is_signed) ==
  [name |-> name, elem_size |-> elem_size, elem_count |-> elem_count,
   is_signed |-> is_signed]

Attr(type, config) == [type |-> type, config |-> config]

\* The attribute sections of the files the model reads.
AttrTables ==
  { <<Attr("PERF_TYPE_TRACEPOINT", 1)>>,
    <<Attr("PERF_TYPE_HARDWARE", 0), Attr("PERF_TYPE_TRACEPOINT", 1)>> }

FormatAB == <<Field("a", 4, 1, TRUE), Field("b", 1, 5, FALSE)>>

FormatX == <<Field("x", 2, 2, TRUE)>>

FormatU == <<Field("u", 3, 2, FALSE)>>

Formats == {FormatAB, FormatX, FormatU}

\* One field of every size and count up to the bounds.
FieldFormats ==
  { <<Field("f", s, c, g)>> :
      s \in 0..MaxElemSize, c \in 0..MaxElemCount, g \in BOOLEAN }

PayloadAB == <<0, 0, 0, 42, 104, 105, 0, 0, 0>>

RawDatas == { <<>>, <<255, 255, 1, 0>>, PayloadAB, PayloadAB \o PayloadAB }

\* linux/perf_event.h: enum perf_callchain_context, as 64-bit patterns.
PERF_CONTEXT_KERNEL == -128

PERF_CONTEXT_USER == -512

PERF_CONTEXT_MAX == -4095

\* a >= b for uint64_t values.
GeU64(a, b) == IF (a < 0) = (b < 0) THEN a >= b ELSE a < 0

\* Call chain entries: a user address, the kernel address just below the
\* marker threshold (0xfffffffffffff000), the threshold, and the two markers.
ChainIps ==
  {16, PERF_CONTEXT_MAX - 1, PERF_CONTEXT_MAX, PERF_CONTEXT_USER,
   PERF_CONTEXT_KERNEL}

RECURSIVE SeqsUpTo(_, _)
SeqsUpTo(S, n) ==
  IF n = 0 THEN { <<>> }
  ELSE LET shorter == SeqsUpTo(S, n - 1)
       IN shorter \cup { Append(q, x) : q \in shorter, x \in S }

Chains == SeqsUpTo(ChainIps, MaxChain)

SmallChains ==
  { <<16>>, <<PERF_CONTEXT_USER, 16>>, <<PERF_CONTEXT_KERNEL, PERF_CONTEXT_MAX - 1>> }

Tids == {1, 2}

SampleRecord(attr_index, tid, in_kernel, has_callchain, ips, raw) ==
  [type |-> "PERF_RECORD_SAMPLE", attr_index |-> attr_index, pid |-> tid,
   tid |-> tid, in_kernel |-> in_kernel, has_callchain |-> has_callchain,
   ips |-> ips, raw |-> raw]

\* The sample records of the pass: without PERF_SAMPLE_CALLCHAIN and with
\* any payload, or with a call chain and no payload or the payload of FormatAB.
SampleRecords ==
  { SampleRecord(a, t, k, FALSE, <<>>, raw) :
      a \in 1..Len(attrs), t \in Tids, k \in BOOLEAN, raw \in RawDatas }
  \cup
  { SampleRecord(a, t, k, TRUE, c, raw) :
      a \in 1..Len(attrs), t \in Tids, k \in BOOLEAN, c \in SmallChains,
      raw \in { <<>>, PayloadAB } }

\* Sample records that differ in their call chain only.
ChainSampleRecords ==
  { SampleRecord(1, 1, k, TRUE, c, <<>>) : k \in BOOLEAN, c \in Chains }

CallChainRecords ==
  { [type |-> "SIMPLE_PERF_RECORD_CALLCHAIN", pid |-> t, tid |-> t, ips |-> c] :
      t \in Tids, c \in { <<16>>, <<16, PERF_CONTEXT_USER>> } }

\* ETMDecoder::Create succeeds or returns null.
AuxTraceInfoRecords ==
  { [type |-> "PERF_RECORD_AUXTRACE_INFO", create_ok |-> b] : b \in BOOLEAN }

\* aux_size, and what ReadAuxData and ETMDecoder::ProcessData return if
\* called; null_call is what the call through a null etm_decoder_ does.
AuxRecord(aux_size, read_ok, process_ok, null_call) ==
  [type |-> "PERF_RECORD_AUX", aux_size |-> aux_size, read_ok |-> read_ok,
   process_ok |-> process_ok, null_call |-> null_call]

\* An answer that is never asked for is left at its first value.
AuxRecords ==
  { AuxRecord(0, TRUE, TRUE, "crash"), AuxRecord(8, FALSE, TRUE, "crash") }
  \cup { AuxRecord(8, TRUE, pr, u) : pr \in BOOLEAN, u \in {"crash", "returns"} }

\* A tracing data record holds the formats by event id.
TracingDataRecord(type, fields) == [type |-> type, formats |-> [c \in {1} |-> fields]]

TracingDataRecords ==
  { TracingDataRecord(t, f) :
      t \in {"PERF_RECORD_TRACING_DATA", "SIMPLE_PERF_RECORD_TRACING_DATA"},
      f \in Formats }

FieldTracingDataRecords ==
  { TracingDataRecord("PERF_RECORD_TRACING_DATA", f) : f \in FieldFormats }

OtherRecords == { [type |-> "PERF_RECORD_MMAP"], [type |-> "PERF_RECORD_COMM"] }

----------------------------------------------------------------------------
(* The handlers of DumpRecordCommand.  Each is an operator from the state  *)
(* it reads to the state it leaves and the lines it prints.                *)

EmptyEventInfo ==
  [tp_data_size |-> 0, tp_fields |-> <<>>, extract_field_functions |-> <<>>]

\* thread_tree_.Update(*r) for the n-th record of the stream: the tree holds
\* the records it was updated from and the threads it has entries for.
ThreadTreeUpdate(tree, n) == [tree EXCEPT !.updates = Append(@, n)]

\* The SymbolInfo carries what the lookup was made with: the address, the
\* in_kernel flag, the thread, and the records the tree had been updated from.
GetSymbolInfo(tree, pid, tid, ip, in_kernel) ==
  [tree |-> [tree EXCEPT !.threads = @ \cup {tid}],
   info |-> [ip |-> ip, in_kernel |-> in_kernel, tid |-> tid,
             model |-> tree.updates]]

\* The loop over the call chain taking only the entries above
\* PERF_CONTEXT_MAX for markers, and PERF_CONTEXT_MAX itself for an address.
RECURSIVE CallChainFrom_StrictThreshold(_, _, _, _)
CallChainFrom_StrictThreshold(sr, i, in_kernel, acc) ==
  IF i > Len(sr.ips) THEN acc
  ELSE IF GeU64(sr.ips[i], PERF_CONTEXT_MAX) /\ sr.ips[i] # PERF_CONTEXT_MAX
    THEN CallChainFrom_StrictThreshold(sr, i + 1,
           IF sr.ips[i] = PERF_CONTEXT_USER THEN FALSE ELSE in_kernel, acc)
  ELSE LET s == GetSymbolInfo(acc.tree, sr.pid, sr.tid, sr.ips[i], in_kernel)
       IN CallChainFrom_StrictThreshold(sr, i + 1, in_kernel,
            [tree |-> s.tree, lines |-> Append(acc.lines, s.info)])

\* The loop over sr.callchain_data.ips, from entry i on; acc is the tree and
\* the symbol lines printed so far.
RECURSIVE CallChainFrom(_, _, _, _)
CallChainFrom(sr, i, in_kernel, acc) ==
  IF i > Len(sr.ips) THEN acc
  ELSE IF GeU64(sr.ips[i], PERF_CONTEXT_MAX)
    THEN CallChainFrom(sr, i + 1,
                       IF sr.ips[i] = PERF_CONTEXT_USER THEN FALSE ELSE in_kernel,
                       acc)
  ELSE LET s == GetSymbolInfo(acc.tree, sr.pid, sr.tid, sr.ips[i], in_kernel)
       IN CallChainFrom(sr, i + 1, in_kernel,
                        [tree |-> s.tree, lines |-> Append(acc.lines, s.info)])

\* The loop over event.tp_fields, from field i on, p the cursor in raw_data.
RECURSIVE TracepointFieldsFrom(_, _, _)
TracepointFieldsFrom(event, p, i) ==
  IF i > Len(event.tp_fields) THEN <<>>
  ELSE LET field == event.tp_fields[i]
           str == CallExtractFieldFn(event.extract_field_functions[i], field, p)
       IN <<[name |-> field.name, value |-> str]>>
          \o TracepointFieldsFrom(event,
                                  Advance(p, field.elem_count * field.elem_size),
                                  i + 1)

\* Whether the sample's tracepoint fields are dumped.
DumpsTracepointFields(sr, events) ==
  /\ events # <<>>
  /\ events[sr.attr_index].tp_data_size > 0
  /\ Len(sr.raw) >= events[sr.attr_index].tp_data_size

ProcessSampleRecord(sr, tree, events) ==
  LET chain == IF sr.has_callchain
                 THEN CallChainFrom(sr, 1, sr.in_kernel,
                                    [tree |-> tree, lines |-> <<>>])
                 ELSE [tree |-> tree, lines |-> <<>>]
      dumps == DumpsTracepointFields(sr, events)
  IN [tree |-> chain.tree, lines |-> chain.lines, tp_printed |-> dumps,
      tp_fields |-> IF dumps
                      THEN TracepointFieldsFrom(events[sr.attr_index], sr.raw, 1)
                      ELSE <<>>]

RECURSIVE CallChainRecordFrom(_, _, _)
CallChainRecordFrom(cr, i, acc) ==
  IF i > Len(cr.ips) THEN acc
  ELSE LET s == GetSymbolInfo(acc.tree, cr.pid, cr.tid, cr.ips[i], FALSE)
       IN CallChainRecordFrom(cr, i + 1,
                              [tree |-> s.tree, lines |-> Append(acc.lines, s.info)])

ProcessCallChainRecord(cr, tree) ==
  CallChainRecordFrom(cr, 1, [tree |-> tree, lines |-> <<>>])

\* DumpAuxData without the test of aux_size.
DumpAuxData_NoSizeTest(aux, etm_decoder) ==
  IF ~aux.read_ok
    THEN [res |-> "false", read_aux |-> TRUE, process_data |-> FALSE]
    ELSE [res |-> IF etm_decoder \/ aux.null_call = "returns"
                    THEN (IF aux.process_ok THEN "true" ELSE "false")
                    ELSE "crash",
          read_aux |-> TRUE, process_data |-> TRUE]

\* res is "true" or "false", or "crash" when the call through the null
\* etm_decoder_ ends the process; read_aux and process_data say whether
\* ReadAuxData and ProcessData were called.
DumpAuxData(aux, etm_decoder) ==
  IF aux.aux_size > 0
    THEN IF ~aux.read_ok
           THEN [res |-> "false", read_aux |-> TRUE, process_data |-> FALSE]
           ELSE [res |-> IF etm_decoder \/ aux.null_call = "returns"
                           THEN (IF aux.process_ok THEN "true" ELSE "false")
                           ELSE "crash",
                 read_aux |-> TRUE, process_data |-> TRUE]
    ELSE [res |-> "true", read_aux |-> FALSE, process_data |-> FALSE]

\* Tracing::GetTracingFormatHavingId
GetTracingFormatHavingId(r, config) == r.formats[config]

RECURSIVE SumFieldSizes(_)
SumFieldSizes(fields) ==
  IF fields = <<>> THEN 0
  ELSE fields[1].elem_count * fields[1].elem_size + SumFieldSizes(Tail(fields))

\* The body of the loop over attrs for one event.
RegisterTracepoint(event, attr, r) ==
  IF attr.type # "PERF_TYPE_TRACEPOINT" THEN event
  ELSE LET fields == GetTracingFormatHavingId(r, attr.config)
       IN [tp_fields |-> fields,
           extract_field_functions |->
             event.extract_field_functions
               \o [j \in 1..Len(fields) |-> GetExtractFieldFunction(fields[j])],
           tp_data_size |-> event.tp_data_size + SumFieldSizes(fields)]

ProcessTracingData(r, events) ==
  LET resized == [i \in 1..Len(attrs) |->
                    IF i <= Len(events) THEN events[i] ELSE EmptyEventInfo]
  IN [i \in 1..Len(attrs) |-> RegisterTracepoint(resized[i], attrs[i], r)]

\* The switch of ProcessRecord on r->type(), with the thread tree it finds.
HandleRecord(r, tree) ==
  LET quiet == [res |-> "true", tree |-> tree, events |-> events_,
                etm_decoder |-> etm_decoder_, lines |-> <<>>,
                tp_printed |-> FALSE, tp_fields |-> <<>>,
                read_aux |-> FALSE, process_data |-> FALSE]
  IN CASE r.type = "PERF_RECORD_SAMPLE" ->
            LET s == ProcessSampleRecord(r, tree, events_)
            IN [quiet EXCEPT !.tree = s.tree, !.lines = s.lines,
                             !.tp_printed = s.tp_printed,
                             !.tp_fields = s.tp_fields]
       [] r.type = "SIMPLE_PERF_RECORD_CALLCHAIN" ->
            LET c == ProcessCallChainRecord(r, tree)
            IN [quiet EXCEPT !.tree = c.tree, !.lines = c.lines]
       [] r.type = "PERF_RECORD_AUXTRACE_INFO" ->
            [quiet EXCEPT !.etm_decoder = r.create_ok,
                          !.res = IF r.create_ok THEN "true" ELSE "false"]
       [] r.type = "PERF_RECORD_AUX" ->
            LET a == DumpAuxData(r, etm_decoder_)
            IN [quiet EXCEPT !.res = a.res, !.read_aux = a.read_aux,
                             !.process_data = a.process_data]
       [] r.type \in {"PERF_RECORD_TRACING_DATA",
                      "SIMPLE_PERF_RECORD_TRACING_DATA"} ->
            [quiet EXCEPT !.events = ProcessTracingData(r, events_)]
       [] OTHER -> quiet

\* ProcessRecord updating the tree after it has handled the record.
ProcessRecord_HandlesFirst(r, n) ==
  LET o == HandleRecord(r, thread_tree_)
  IN [o EXCEPT !.tree = ThreadTreeUpdate(o.tree, n)]

\* ProcessRecord for the n-th record of the stream: the tree is updated
\* from the record, then the record is handled.
ProcessRecord(r, n) == HandleRecord(r, ThreadTreeUpdate(thread_tree_, n))

\* The feature sections of a file, in the order of std::map<int, SectionDesc>
\* (ascending key).
FeatureMaps ==
  { <<>>, <<"FEAT_BUILD_ID", "FEAT_CMDLINE">>,
    <<"FEAT_BUILD_ID", "FEAT_FILE", "FEAT_META_INFO">> }

\* What the calls of ReadFileFeature do: ok of them read a file entry, and
\* the next one finds the end of the section ("end") or fails to read
\* ("fail").
FileReads == [ok : 0..MaxFileReads, final : {"end", "fail"}]

\* The feature sections and the reads of the file section, if it has one.
FeatureInputs ==
  { [sections |-> m, reads |-> rd] : m \in FeatureMaps, rd \in FileReads }
  \ { [sections |-> m, reads |-> rd] :
        m \in { x \in FeatureMaps : \A i \in 1..Len(x) : x[i] # "FEAT_FILE" },
        rd \in FileReads \ { [ok |-> 0, final |-> "end"] } }

\* ReadFileFeature returns false at the end of the section and on a failed
\* read alike: the k-th call (from 1) returns true for the first reads.ok calls.
ReadFileFeature(reads, k) == k <= reads.ok

\* The while loop of FEAT_FILE from the k-th call on: the entries printed.
RECURSIVE FileEntriesFrom(_, _)
FileEntriesFrom(reads, k) ==
  IF ReadFileFeature(reads, k) THEN 1 + FileEntriesFrom(reads, k + 1) ELSE 0

\* The loop over section_map from section i on.
RECURSIVE FeatureSectionsFrom(_, _, _, _)
FeatureSectionsFrom(sections, i, reads, acc) ==
  IF i > Len(sections) THEN acc
  ELSE LET printed == [acc EXCEPT !.dumped = Append(@, sections[i])]
       IN IF sections[i] = "FEAT_FILE"
            THEN FeatureSectionsFrom(sections, i + 1, reads,
                   [printed EXCEPT !.files = FileEntriesFrom(reads, 1),
                                   !.file_loop_ended = reads.final])
            ELSE FeatureSectionsFrom(sections, i + 1, reads, printed)

DumpFeatureSection(sections, reads) ==
  [ret |-> TRUE,
   out |-> FeatureSectionsFrom(sections, 1, reads,
             [dumped |-> <<>>, files |-> 0, file_loop_ended |-> "none"])]

\* RecordFileReader::ReadDataSection goes on to the next record when the
\* callback returns true, and stops and returns false when it returns false.
ReadDataSectionContinues(res) == res = "true"

\* Run dumping the feature section whatever DumpDataSection returned.
RunAfterDataSection_IgnoresFailure(data_ok) == [pc |-> "feature", ret |-> FALSE]

\* Run, from the return of DumpDataSection on.
RunAfterDataSection(data_ok) ==
  IF ~data_ok THEN [pc |-> "returned", ret |-> FALSE]
  ELSE [pc |-> "feature", ret |-> FALSE]

----------------------------------------------------------------------------
(* The state machine. *)

NoRecord ==
  [n |-> 0, r |-> [type |-> "none"], res |-> "none", prev_res |-> "none",
   lines |-> <<>>, tp_printed |-> FALSE, tp_fields |-> <<>>,
   read_aux |-> FALSE, process_data |-> FALSE]

NoFeatures ==
  [ran |-> FALSE, sections |-> <<>>, reads |-> [ok |-> 0, final |-> "end"],
   dumped |-> <<>>, files |-> 0, file_loop_ended |-> "none"]

\* Run has parsed its options, opened the file and dumped the header and the
\* attributes; DumpDataSection is about to read the first record.
Init ==
  /\ pc = "data"
  /\ ret = FALSE
  /\ little_endian \in BOOLEAN
  /\ attrs \in AttrTables
  /\ events_ = <<>>
  /\ etm_decoder_ = FALSE
  /\ thread_tree_ = [updates |-> <<>>, threads |-> {}]
  /\ nread = 0
  /\ last = NoRecord
  /\ feat = NoFeatures

\* ReadDataSection hands record r to the callback, while fewer than cap
\* records have been read.
Callback(r, cap) ==
  /\ pc = "data"
  /\ nread < cap
  /\ \E o \in {ProcessRecord(r, nread + 1)} :
     LET run == IF o.res = "crash" THEN [pc |-> "crashed", ret |-> FALSE]
                ELSE IF ReadDataSectionContinues(o.res)
                  THEN [pc |-> "data", ret |-> FALSE]
                  ELSE RunAfterDataSection(FALSE)
     IN /\ nread' = nread + 1
        /\ thread_tree_' = o.tree
        /\ events_' = o.events
        /\ etm_decoder_' = o.etm_decoder
        /\ last' = [n |-> nread + 1, r |-> r, res |-> o.res,
                    prev_res |-> last.res, lines |-> o.lines,
                    tp_printed |-> o.tp_printed, tp_fields |-> o.tp_fields,
                    read_aux |-> o.read_aux, process_data |-> o.process_data]
        /\ pc' = run.pc
        /\ ret' = run.ret
  /\ UNCHANGED <<little_endian, attrs, feat>>

RecordSample == \E r \in SampleRecords : Callback(r, MaxRecords)

RecordCallChain == \E r \in CallChainRecords : Callback(r, MaxRecords)

RecordAuxTraceInfo == \E r \in AuxTraceInfoRecords : Callback(r, MaxRecords)

RecordAux == \E r \in AuxRecords : Callback(r, MaxRecords)

RecordTracingData == \E r \in TracingDataRecords : Callback(r, MaxRecords)

RecordOther == \E r \in OtherRecords : Callback(r, MaxRecords)

\* The data section has no more records: ReadDataSection returns true.
EndOfDataSection ==
  /\ pc = "data"
  /\ LET run == RunAfterDataSection(TRUE)
     IN pc' = run.pc /\ ret' = run.ret
  /\ UNCHANGED <<little_endian, attrs, events_, etm_decoder_, thread_tree_,
                 nread, last, feat>>

DumpFeatures ==
  /\ pc = "feature"
  /\ \E in \in FeatureInputs :
       \E d \in {DumpFeatureSection(in.sections, in.reads)} :
          /\ feat' = [ran |-> TRUE, sections |-> in.sections, reads |-> in.reads,
                      dumped |-> d.out.dumped, files |-> d.out.files,
                      file_loop_ended |-> d.out.file_loop_ended]
          /\ ret' = d.ret
  /\ pc' = "returned"
  /\ UNCHANGED <<little_endian, attrs, events_, etm_decoder_, thread_tree_,
                 nread, last>>

Next ==
  \/ RecordSample
  \/ RecordCallChain
  \/ RecordAuxTraceInfo
  \/ RecordAux
  \/ RecordTracingData
  \/ RecordOther
  \/ EndOfDataSection
  \/ DumpFeatures

Spec == Init /\ [][Next]_vars

\* The pass over sample records that differ in their call chain.
RecordChainSample == \E r \in ChainSampleRecords : Callback(r, MaxInputRecords)

NextChain == RecordChainSample \/ EndOfDataSection \/ DumpFeatures

\* The call chain walk reads neither the byte order nor the attributes.
InitChain == Init /\ little_endian /\ Len(attrs) = 1

SpecChain == InitChain /\ [][NextChain]_vars

\* The pass over tracing data records of one field of every size and count.
RecordFieldTracingData ==
  \E r \in FieldTracingDataRecords : Callback(r, MaxInputRecords)

NextField == RecordFieldTracingData \/ EndOfDataSection \/ DumpFeatures

SpecField == Init /\ [][NextField]_vars

----------------------------------------------------------------------------
(* The claims. *)

IsSample == last.r.type = "PERF_RECORD_SAMPLE"

IsAux == last.r.type = "PERF_RECORD_AUX"

IsTracingData ==
  last.r.type \in {"PERF_RECORD_TRACING_DATA", "SIMPLE_PERF_RECORD_TRACING_DATA"}

\* The pass went on after the latest record: Run is still reading records,
\* or the data section ended and Run moved on to the feature section.
PassContinued == pc \in {"data", "feature"} \/ (pc = "returned" /\ feat.ran)

\* C1: in every reachable state every EventInfo of events_ has as many
\* decoding functions as field descriptors:
\* len(extract_field_functions) = len(tp_fields).
C1_FieldsMatchDecoders ==
  \A i \in 1..Len(events_) :
    Len(events_[i].extract_field_functions) = Len(events_[i].tp_fields)

\* The latest record is a sample of 9 bytes 00 00 00 2A 'h' 'i' 0 0 0 for an
\* attribute whose fields a and b were registered by one tracing data record.
C2_Scenario ==
  /\ IsSample
  /\ last.r.raw = PayloadAB
  /\ events_ # <<>>
  /\ events_[last.r.attr_index].tp_fields = FormatAB
  /\ Len(events_[last.r.attr_index].extract_field_functions) = Len(FormatAB)

RealEntries(ips) == { i \in 1..Len(ips) : ~GeU64(ips[i], PERF_CONTEXT_MAX) }

\* The position in ips of the k-th entry below the threshold.
KthReal(ips, k) ==
  CHOOSE i \in RealEntries(ips) :
    Cardinality({ j \in RealEntries(ips) : j <= i }) = k

\* The symbol lines of the latest sample are those of the entries below the
\* threshold, one each, in chain order, resolved with the flag InKernel(i).
ChainResolvedWith(InKernel(_)) ==
  LET ips == last.r.ips
  IN /\ Len(last.lines) = Cardinality(RealEntries(ips))
     /\ \A k \in 1..Len(last.lines) :
          /\ last.lines[k].ip = ips[KthReal(ips, k)]
          /\ last.lines[k].in_kernel = InKernel(KthReal(ips, k))

\* The flag the most recent user or kernel marker before entry i sets, or
\* the sample's own when there is none.
LastMarkerFlag(i) ==
  LET ips == last.r.ips
      markers == { j \in 1..(i - 1) :
                     ips[j] \in {PERF_CONTEXT_USER, PERF_CONTEXT_KERNEL} }
  IN IF markers = {} THEN last.r.in_kernel
     ELSE ips[CHOOSE j \in markers : \A m \in markers : m <= j]
            = PERF_CONTEXT_KERNEL

\* FALSE after a user marker, the sample's own flag before the first one.
UserMarkerFlag(i) ==
  IF \E j \in 1..(i - 1) : last.r.ips[j] = PERF_CONTEXT_USER
    THEN FALSE
    ELSE last.r.in_kernel

\* C3, as claimed: markers are not resolved and print no line, every other
\* entry is resolved once in chain order, with the in_kernel flag of the most
\* recent preceding marker (user or kernel), or the sample's own.
C3_LastMarkerDecides ==
  (IsSample /\ last.r.has_callchain) => ChainResolvedWith(LastMarkerFlag)

\* C3, amended: markers are not resolved and print no line, every other entry
\* is resolved once in chain order; in_kernel is the sample's own privilege
\* level up to the first PERF_CONTEXT_USER marker and FALSE after it, and no
\* other marker (PERF_CONTEXT_KERNEL included) changes it.
C3_UserMarkerDecides ==
  (IsSample /\ last.r.has_callchain) => ChainResolvedWith(UserMarkerFlag)

C3_Witness ==
  /\ IsSample
  /\ last.r.ips = <<PERF_CONTEXT_USER, PERF_CONTEXT_KERNEL, PERF_CONTEXT_MAX - 1>>
  /\ last.r.in_kernel
  /\ Len(last.lines) = 1
  /\ ~last.lines[1].in_kernel

\* C4: a record whose handler returns false ends the pass: no record is
\* processed after it, the feature section is not dumped and Run returns
\* false.  The handler returns false when the ETM decoder cannot be
\* constructed and when DumpAuxData fails; after any record whose handler
\* returns true the pass goes on.
C4_FailureEndsPass ==
  /\ last.prev_res \in {"none", "true"}
  /\ last.res = "false" => (pc = "returned" /\ ret = FALSE /\ ~feat.ran)
  /\ last.res = "true" => PassContinued
  /\ (last.r.type = "PERF_RECORD_AUXTRACE_INFO" /\ ~last.r.create_ok)
       => last.res = "false"
  /\ (IsAux /\ last.read_aux /\ ~last.r.read_ok) => last.res = "false"
  /\ (IsAux /\ last.process_data /\ ~last.r.process_ok /\ last.res # "crash")
       => last.res = "false"
  /\ last.r.type \notin {"PERF_RECORD_AUXTRACE_INFO", "PERF_RECORD_AUX", "none"}
       => last.res = "true"

C4_Witness ==
  /\ last.r.type = "PERF_RECORD_AUXTRACE_INFO"
  /\ last.res = "false"
  /\ last.n = 2
  /\ pc = "returned"

\* C5: when a read of a file feature entry fails, feature dumping stops (the
\* file section is the last one dumped) and the command returns false; it
\* returns true only when no feature read failed.
C5_FailedReadFails ==
  (pc = "returned" /\ feat.ran /\ feat.file_loop_ended = "fail") =>
    /\ ret = FALSE
    /\ feat.dumped[Len(feat.dumped)] = "FEAT_FILE"

\* C6: a sample of an attribute with cached tracepoint fields has its fields
\* decoded exactly when its raw payload is at least the sum of
\* elem_size * elem_count over the cached fields; tp_data_size is that sum.
C6_DecodedIffPayloadCoversFields ==
  (IsSample /\ events_ # <<>>
     /\ events_[last.r.attr_index].tp_fields # <<>>) =>
    LET event == events_[last.r.attr_index]
    IN /\ event.tp_data_size = SumFieldSizes(event.tp_fields)
       /\ last.tp_printed <=> Len(last.r.raw) >= SumFieldSizes(event.tp_fields)
       /\ last.tp_printed => Len(last.tp_fields) = Len(event.tp_fields)

IntWidths == {1, 2, 4, 8}

\* The selection as claimed: the integer array for elem_count > 1 only.
ClaimedFunction(field) ==
  IF field.elem_count > 1 /\ field.elem_size = 1
    THEN Fn("ExtractStringField", 0)
  ELSE IF field.elem_count = 1 /\ field.elem_size \in IntWidths
    THEN Fn("ExtractIntField", field.elem_size)
  ELSE IF field.elem_count > 1 /\ field.elem_size \in IntWidths
    THEN Fn("ExtractIntArrayField", field.elem_size)
  ELSE Fn("ExtractUnknownField", 0)

\* The selection as amended: the integer array for every elem_count but 1.
AmendedFunction(field) ==
  IF field.elem_count > 1 /\ field.elem_size = 1
    THEN Fn("ExtractStringField", 0)
  ELSE IF field.elem_count = 1 /\ field.elem_size \in IntWidths
    THEN Fn("ExtractIntField", field.elem_size)
  ELSE IF field.elem_count # 1 /\ field.elem_size \in IntWidths
    THEN Fn("ExtractIntArrayField", field.elem_size)
  ELSE Fn("ExtractUnknownField", 0)

\* The functions the latest tracing data record registered (the last
\* Len(tp_fields) of extract_field_functions) are Selected of its fields.
RegisteredAre(Selected(_)) ==
  \A i \in 1..Len(events_) :
    attrs[i].type = "PERF_TYPE_TRACEPOINT" =>
      LET event == events_[i]
          n == Len(event.tp_fields)
          m == Len(event.extract_field_functions)
      IN /\ m >= n
         /\ \A j \in 1..n :
              event.extract_field_functions[m - n + j] = Selected(event.tp_fields[j])

\* C7, as claimed: string iff elem_count > 1 and elem_size = 1; else scalar
\* integer of width elem_size iff elem_count = 1 and elem_size in {1,2,4,8};
\* else integer array iff elem_count > 1 and elem_size in {1,2,4,8}; the
\* unknown-field fallback in every other case; whatever is_signed.
C7_SelectsAsClaimed == IsTracingData => RegisteredAre(ClaimedFunction)

\* C7, amended: as claimed, but the integer array is selected iff
\* elem_count # 1 (0 included) and elem_size in {1,2,4,8} and the field is
\* no string; the fallback covers exactly the elem_size outside {1,2,4,8}.
C7_SelectsArrayForZeroCount == IsTracingData => RegisteredAre(AmendedFunction)

C7_Witness ==
  /\ IsTracingData
  /\ last.r.formats[1] = <<Field("f", 4, 0, TRUE)>>
  /\ events_[Len(events_)].extract_field_functions = <<Fn("ExtractIntArrayField", 4)>>

\* C8: records are handled in stream order, and the thread tree is updated
\* from record N before N is handled: every symbol lookup made for record N
\* sees the tree as updated from records 1..N and no other.
C8_LookupsSeeOwnUpdate ==
  /\ last.n = nread
  /\ thread_tree_.updates = [i \in 1..nread |-> i]
  /\ \A k \in 1..Len(last.lines) :
       last.lines[k].model = [i \in 1..last.n |-> i]

C8_Witness == last.n = 3 /\ last.lines # <<>> /\ last.tp_printed

\* C9: an aux record of aux_size 0 makes no ReadAuxData call, feeds nothing
\* to the ETM decoder, and its handler returns true so that the pass goes
\* on, whatever preceded it.
C9_EmptyAuxSucceeds ==
  (IsAux /\ last.r.aux_size = 0) =>
    /\ ~last.read_aux
    /\ ~last.process_data
    /\ last.res = "true"
    /\ PassContinued

C9_Witness ==
  IsAux /\ last.r.aux_size = 0 /\ ~etm_decoder_ /\ last.n = 2 /\ pc = "data"

\* C10: etm_decoder_ is non-null at every call of ProcessData.
C10_DecoderBeforeData == last.process_data => etm_decoder_

============================================================================
